---- MODULE Spec2Model ----
(***************************************************************************)
(* A model of src/ClassPortfolio.py (class Portfolio): the weight ledger   *)
(* kept by update_stock, the memoized portfolio return series, the         *)
(* leave-one-out analyzer, the transaction replay of getDynamicTimeSeries  *)
(* and the seeded path generation of monteCarloSimulation.                 *)
(*                                                                         *)
(* Money amounts are exact integers and weights exact reduced fractions    *)
(* <<numerator, denominator>>: two amounts that are equal here are equal   *)
(* as Python floats as well.                                               *)
(***************************************************************************)
EXTENDS Integers, Sequences, FiniteSets, TLC

\* ------------------------------------------------------------------ bounds
Symbols == {"A", "B"}
MaxQuantity == 2
MaxPrice == 2
MaxInvestment == 4
MaxInitValue == 2

Quantities == 0..MaxQuantity
Prices == 0..MaxPrice

None == "None"
\* a memo field that is still None, and one that holds a series
NotCached == [cached |-> FALSE, series |-> <<>>]
Cached(series) == [cached |-> TRUE, series |-> series]
EmptyMap == [x \in {} |-> 0]

VARIABLES
    \* the Portfolio object
    stocks, weights, cash_balance, portfolio_returns, portfolio_excess_returns,
    \* the last call and its result; the last update_stock arguments
    last, rt,
    \* getDynamicTimeSeries: its argument, its locals and where it stands
    ledger, transaction_log, current_cash, current_holdings, portfolio_values,
    day, k, pc, processed,
    \* numpy's global random generator, the table kept by the portfolio, the last
    \* monteCarloSimulation call with the table it returned, and an earlier one
    rng, simulated_portfolio_values, mc, earlier

portfolioVars == <<stocks, weights, cash_balance, portfolio_returns,
                   portfolio_excess_returns, last, rt>>
replayVars == <<ledger, transaction_log, current_cash, current_holdings,
                portfolio_values, day, k, pc, processed>>
simulationVars == <<rng, simulated_portfolio_values, mc, earlier>>
vars == <<portfolioVars, replayVars, simulationVars>>

\* ------------------------------------------------------- exact fractions
RECURSIVE GCD(_, _)
GCD(a, b) == IF b = 0 THEN a ELSE GCD(b, a % b)

Abs(x) == IF x < 0 THEN -x ELSE x

\* n / d, d # 0, in lowest terms with a positive denominator
Frac(n, d) ==
    LET g == GCD(Abs(n), Abs(d))
        sgn == IF d < 0 THEN -1 ELSE 1
    IN <<sgn * (n \div g), sgn * (d \div g)>>

FracAdd(x, y) == Frac(x[1] * y[2] + y[1] * x[2], x[2] * y[2])

RECURSIVE SumOver(_, _)
SumOver(f, S) ==
    IF S = {} THEN 0
    ELSE LET x == CHOOSE y \in S : TRUE IN f[x] + SumOver(f, S \ {x})

RECURSIVE FracSumOver(_, _)
FracSumOver(f, S) ==
    IF S = {} THEN <<0, 1>>
    ELSE LET x == CHOOSE y \in S : TRUE IN FracAdd(f[x], FracSumOver(f, S \ {x}))

\* --------------------------------------------------------------- holdings
\* Stock(symbol, invested=0.0, value=0.0, ...)
NewStock == [value |-> 0, investment |-> 0]

\* Stock.getAmount(): the holding's current monetary value
getAmount(st) == st.value

Put(s, symbol, st) == [x \in DOMAIN s \cup {symbol} |-> IF x = symbol THEN st ELSE s[x]]
Remove(s, symbol) == [x \in DOMAIN s \ {symbol} |-> s[x]]

total_value(s) == SumOver([x \in DOMAIN s |-> getAmount(s[x])], DOMAIN s)

\* Portfolio.getWeights: raises ValueError when the total value is zero
getWeights(s) ==
    LET total == total_value(s)
    IN IF total = 0
       THEN [raised |-> TRUE, w |-> EmptyMap]
       ELSE [raised |-> FALSE,
             w |-> [x \in DOMAIN s |-> Frac(getAmount(s[x]), total)]]

\* the tail of update_stock: "recalculate weights"
recalculate(s, w) ==
    IF Cardinality(DOMAIN s) > 0
    THEN LET got == getWeights(s)
         IN IF got.raised
            THEN [stocks |-> s, weights |-> w, outcome |-> "ZeroTotalValue"]
            ELSE [stocks |-> s, weights |-> got.w, outcome |-> "ok"]
    ELSE [stocks |-> s, weights |-> EmptyMap, outcome |-> "ok"]

\* the buy branch of update_stock
buy(s, w, symbol, cost) ==
    LET stock == s[symbol]
        current_value == getAmount(stock)
    IN recalculate(Put(s, symbol, [stock EXCEPT !.value = current_value + cost,
                                                !.investment = stock.investment + cost]), w)

\* a sell that takes the amount off the holding before it checks the position
sell_subtract_first(s, w, symbol, cost) ==
    LET stock == s[symbol]
        current_value == getAmount(stock)
        s2 == Put(s, symbol, [stock EXCEPT !.value = current_value - cost])
    IN IF s2[symbol].value < 0
       THEN [stocks |-> s2, weights |-> w, outcome |-> "InsufficientPosition"]
       ELSE IF current_value - cost = 0
            THEN recalculate(Remove(s, symbol), w)
            ELSE recalculate(s2, w)

\* the sell branch of update_stock
sell(s, w, symbol, cost) ==
    LET stock == s[symbol]
        current_value == getAmount(stock)
    IN IF stock.value < cost
       THEN [stocks |-> s, weights |-> w, outcome |-> "InsufficientPosition"]
       ELSE IF current_value - cost = 0
            THEN recalculate(Remove(s, symbol), w)
            ELSE recalculate(Put(s, symbol, [stock EXCEPT !.value = current_value - cost]), w)

\* Portfolio.update_stock(symbol, quantity, price, increase)
update_stock(s, w, symbol, quantity, price, increase) ==
    IF symbol \notin DOMAIN s /\ ~increase
    THEN [stocks |-> s, weights |-> w, outcome |-> "UnknownPosition"]
    ELSE LET s1 == IF symbol \notin DOMAIN s THEN Put(s, symbol, NewStock) ELSE s
         IN IF increase
            THEN buy(s1, w, symbol, quantity * price)
            ELSE sell(s1, w, symbol, quantity * price)

\* ---------------------------------------------------------- return engine
\* Stock.getAdjustedReturns() of each symbol: the daily adjusted returns the
\* holding supplies, in percent
AdjustedReturns == [x \in Symbols |-> IF x = "A" THEN <<1, 3>> ELSE <<2, 0>>]
ReturnDates == {1, 2}

\* Portfolio.getAdjustedReturns: the joint table of the holdings' series, then
\* df.dot(w); pandas' dot raises ValueError("matrices are not aligned") when the
\* columns of df and the index of w differ
getAdjustedReturns(s, w) ==
    IF DOMAIN s = {}
    THEN [raised |-> FALSE, series |-> <<>>]
    ELSE IF DOMAIN w # DOMAIN s
         THEN [raised |-> TRUE, series |-> <<>>]
         ELSE [raised |-> FALSE,
               series |-> [d \in ReturnDates |->
                   FracSumOver([x \in DOMAIN s |->
                       Frac(AdjustedReturns[x][d] * w[x][1], w[x][2])], DOMAIN s)]]

\* Portfolio.getPortfolioReturns: [raised, memo, series]
getPortfolioReturns(memo, s, w) ==
    IF memo.cached
    THEN [raised |-> FALSE, memo |-> memo, series |-> memo.series]
    ELSE LET r == getAdjustedReturns(s, w)
         IN IF r.raised
            THEN [raised |-> TRUE, memo |-> memo, series |-> <<>>]
            ELSE [raised |-> FALSE, memo |-> Cached(r.series), series |-> r.series]

\* pr - daily_rf, daily_rf = (1 + RF) ** (1/252) - 1
LessDailyRF(pr) == [d \in DOMAIN pr |-> [of |-> pr[d], less |-> "daily_rf"]]

\* Portfolio.getPortfolioExcessReturns: [raised, memo, excess, series]
getPortfolioExcessReturns(excess, memo, s, w) ==
    IF excess.cached
    THEN [raised |-> FALSE, memo |-> memo, excess |-> excess, series |-> excess.series]
    ELSE LET pr == getPortfolioReturns(memo, s, w)
         IN IF pr.raised
            THEN [raised |-> TRUE, memo |-> pr.memo, excess |-> excess, series |-> <<>>]
            ELSE IF pr.series = <<>>
                 THEN [raised |-> FALSE, memo |-> pr.memo, excess |-> Cached(<<>>),
                       series |-> <<>>]
                 ELSE [raised |-> FALSE, memo |-> pr.memo,
                       excess |-> Cached(LessDailyRF(pr.series)),
                       series |-> LessDailyRF(pr.series)]

\* a metric value: not available (np.nan), or the annualized sample standard
\* deviation of a series
NaN == [nan |-> TRUE, std |-> <<>>]
StdOf(series) == [nan |-> FALSE, std |-> series]

\* Portfolio.getPortfolioStdDev: [raised, memo, value]
getPortfolioStdDev(memo, s, w) ==
    LET rr == getPortfolioReturns(memo, s, w)
    IN IF rr.raised
       THEN [raised |-> TRUE, memo |-> rr.memo, value |-> NaN]
       ELSE IF rr.series = <<>>
            THEN [raised |-> FALSE, memo |-> rr.memo, value |-> NaN]
            ELSE [raised |-> FALSE, memo |-> rr.memo, value |-> StdOf(rr.series)]

\* ------------------------------------------------------ leave-one-out
\* Portfolio.simulatePortfolioWithoutAsset: [raised, value]; the transient
\* Portfolio(new_stocks, ...) is built by __init__, whose getWeights() raises on a
\* zero total value
simulatePortfolioWithoutAsset(s, w, symbol) ==
    IF symbol \notin DOMAIN w
    THEN [raised |-> FALSE, value |-> NaN]
    ELSE LET new_stocks == Remove(s, symbol)
         IN IF DOMAIN new_stocks = {}
            THEN [raised |-> FALSE, value |-> NaN]
            ELSE LET testp == getWeights(new_stocks)
                 IN IF testp.raised
                    THEN [raised |-> TRUE, value |-> NaN]
                    ELSE LET sd == getPortfolioStdDev(NotCached, new_stocks, testp.w)
                         IN [raised |-> sd.raised, value |-> sd.value]

\* orig - new_ : not a number as soon as one operand is
Minus(orig, new_) ==
    IF orig.nan \/ new_.nan THEN NaN ELSE [nan |-> FALSE, std |-> <<orig.std, new_.std>>]

\* Portfolio.getAssetImpactOnVolatility: [raised, memo, new_, value]
getAssetImpactOnVolatility(memo, s, w, symbol) ==
    LET orig == getPortfolioStdDev(memo, s, w)
    IN IF orig.raised
       THEN [raised |-> TRUE, memo |-> orig.memo, new_ |-> NaN, value |-> NaN]
       ELSE LET got == simulatePortfolioWithoutAsset(s, w, symbol)
            IN IF got.raised
               THEN [raised |-> TRUE, memo |-> orig.memo, new_ |-> NaN, value |-> NaN]
               ELSE IF got.value.nan
                    THEN [raised |-> FALSE, memo |-> orig.memo, new_ |-> got.value,
                          value |-> NaN]
                    ELSE [raised |-> FALSE, memo |-> orig.memo, new_ |-> got.value,
                          value |-> Minus(orig.value, got.value)]

\* ------------------------------------------------------ transaction replay
MaxLedger == 2

\* Stock.quantity of a holding: the shares held
shares == [x \in Symbols |-> 2]

\* prices_df = getAdjClosePrices(): its date index as it comes, and the close of
\* each symbol on a date
PriceIndex == <<3, 1>>
ClosePrice(d, x) == IF x = "A" THEN d ELSE 2

\* prices_df.columns: one column per holding of the portfolio
PriceColumns(s) == DOMAIN s

\* the rows a transaction_log is made of: (Quantity, Price) orders on dates in and
\* out of the price index
TxDates == {1, 2, 3}
TxOrders == {<<0, 1>>, <<1, 1>>, <<1, 2>>}
Transactions ==
    {[Date |-> d, Type |-> ty, Symbol |-> x, Quantity |-> o[1], Price |-> o[2]] :
        d \in TxDates, ty \in {"buy", "sell"}, x \in Symbols, o \in TxOrders}
Ledgers == UNION {[1..n -> Transactions] : n \in 0..MaxLedger}
InitialCash == {1}

RECURSIVE Ascending(_)
Ascending(S) ==
    IF S = {} THEN <<>>
    ELSE LET m == CHOOSE x \in S : \A y \in S : x <= y
         IN <<m>> \o Ascending(S \ {m})

\* prices_df.index.sort_values().unique()
all_dates == Ascending({PriceIndex[i] : i \in DOMAIN PriceIndex})

\* a DataFrame keeps each row's index label: here the row's place in the ledger
Frame(log) == [i \in DOMAIN log |-> [index |-> i, tx |-> log[i]]]

\* transaction_log.sort_values("Date"): the default kind is quicksort, which is
\* not stable, so rows of the same Date come out in any order
sort_values(frame) ==
    {[i \in DOMAIN frame |-> frame[p[i]]] :
        p \in {q \in [DOMAIN frame -> DOMAIN frame] :
                 /\ \A i, j \in DOMAIN frame : i # j => q[i] # q[j]
                 /\ \A i, j \in DOMAIN frame :
                        i < j => frame[q[i]].tx.Date <= frame[q[j]].tx.Date}}

\* transaction_log[transaction_log["Date"] == day]
IsOn(d, row) == row.tx.Date = d
RECURSIVE day_txs(_, _)
day_txs(log, d) ==
    IF log = <<>> THEN <<>>
    ELSE (IF IsOn(d, Head(log)) THEN <<Head(log)>> ELSE <<>>) \o day_txs(Tail(log), d)

\* current_holdings.get(tsym, 0.0)
get(holdings, tsym) == IF tsym \in DOMAIN holdings THEN holdings[tsym] ELSE 0

\* a loop body that charges a buy before it checks the cash
apply_tx_charge_first(cash, holdings, tx) ==
    LET tsym == tx.Symbol
        qty == tx.Quantity
        px == tx.Price
    IN IF tx.Type = "buy"
       THEN IF cash - qty * px < 0
            THEN [cash |-> cash - qty * px, holdings |-> holdings,
                  outcome |-> "Not enough cash to buy."]
            ELSE [cash |-> cash - qty * px,
                  holdings |-> Put(holdings, tsym, get(holdings, tsym) + qty),
                  outcome |-> "ok"]
       ELSE IF get(holdings, tsym) < qty
            THEN [cash |-> cash, holdings |-> holdings,
                  outcome |-> "Not enough shares to sell."]
            ELSE IF tsym \notin DOMAIN holdings
                 THEN [cash |-> cash + qty * px, holdings |-> holdings,
                       outcome |-> "KeyError"]
                 ELSE [cash |-> cash + qty * px,
                       holdings |-> IF holdings[tsym] - qty <= 0
                                    THEN Remove(holdings, tsym)
                                    ELSE Put(holdings, tsym, holdings[tsym] - qty),
                       outcome |-> "ok"]

\* a loop body whose sell keeps a holding that has been sold out
apply_tx_keep_sold_out(cash, holdings, tx) ==
    LET tsym == tx.Symbol
        qty == tx.Quantity
        px == tx.Price
    IN IF tx.Type = "buy"
       THEN IF cash < qty * px
            THEN [cash |-> cash, holdings |-> holdings,
                  outcome |-> "Not enough cash to buy."]
            ELSE [cash |-> cash - qty * px,
                  holdings |-> Put(holdings, tsym, get(holdings, tsym) + qty),
                  outcome |-> "ok"]
       ELSE IF get(holdings, tsym) < qty
            THEN [cash |-> cash, holdings |-> holdings,
                  outcome |-> "Not enough shares to sell."]
            ELSE IF tsym \notin DOMAIN holdings
                 THEN [cash |-> cash + qty * px, holdings |-> holdings,
                       outcome |-> "KeyError"]
                 ELSE [cash |-> cash + qty * px,
                       holdings |-> Put(holdings, tsym, holdings[tsym] - qty),
                       outcome |-> "ok"]

\* the body of the loop over day_txs: [cash, holdings, outcome]; the outcome is
\* "ok", the error logged before `continue`, or the exception that leaves the loop
apply_tx(cash, holdings, tx) ==
    LET tsym == tx.Symbol
        qty == tx.Quantity
        px == tx.Price
    IN IF tx.Type = "buy"
       THEN IF cash < qty * px
            THEN [cash |-> cash, holdings |-> holdings,
                  outcome |-> "Not enough cash to buy."]
            ELSE [cash |-> cash - qty * px,
                  holdings |-> Put(holdings, tsym, get(holdings, tsym) + qty),
                  outcome |-> "ok"]
       ELSE IF get(holdings, tsym) < qty
            THEN [cash |-> cash, holdings |-> holdings,
                  outcome |-> "Not enough shares to sell."]
            ELSE IF tsym \notin DOMAIN holdings
                 THEN [cash |-> cash + qty * px, holdings |-> holdings,
                       outcome |-> "KeyError"]
                 ELSE [cash |-> cash + qty * px,
                       holdings |-> IF holdings[tsym] - qty <= 0
                                    THEN Remove(holdings, tsym)
                                    ELSE Put(holdings, tsym, holdings[tsym] - qty),
                       outcome |-> "ok"]

\* the mark-to-market of a date: cash plus the value of every symbol of the
\* replay holdings that has a price column
day_val(cash, holdings, d, columns) ==
    cash + SumOver([x \in DOMAIN holdings \cap columns |->
                        holdings[x] * ClosePrice(d, x)],
                   DOMAIN holdings \cap columns)

row_dict(cash, holdings, d, columns) ==
    [Date |-> d, Cash |-> cash, PortfolioValue |-> day_val(cash, holdings, d, columns)]

\* dyn_df.sort_values("Date"): the rows in ascending Date, any order among equals
sort_rows(rows) ==
    {[i \in DOMAIN rows |-> rows[p[i]]] :
        p \in {q \in [DOMAIN rows -> DOMAIN rows] :
                 /\ \A i, j \in DOMAIN rows : i # j => q[i] # q[j]
                 /\ \A i, j \in DOMAIN rows :
                        i < j => rows[q[i]].Date <= rows[q[j]].Date}}

\* ------------------------------------------------------ Monte Carlo paths
MaxSimulations == 2
MaxDays == 2

\* numpy's global generator, as a small deterministic generator: seeding sets
\* its state from the seed alone, every draw advances the state
RngStates == 0..4

\* a call that leaves out the seeding of the path
seed_left_out(state, i) == state

\* np.random.seed(i)
seed(state, i) == (i + 1) % Cardinality(RngStates)

next_state(state) == (2 * state + 1) % Cardinality(RngStates)
standard_normal(state) == (state % 3) - 1

\* np.random.normal(0, std_dev, num_days): [shocks, state]
RECURSIVE normal(_, _, _)
normal(state, std_dev, num_days) ==
    IF num_days = 0 THEN [shocks |-> <<>>, state |-> state]
    ELSE LET rest == normal(next_state(state), std_dev, num_days - 1)
         IN [shocks |-> <<std_dev * standard_normal(state)>> \o rest.shocks,
             state |-> rest.state]

\* np.cumprod(np.exp(drift * dt + shocks)), as the running sum of the exponents
RECURSIVE cumsum(_, _, _)
cumsum(drift, shocks, sofar) ==
    IF shocks = <<>> THEN <<>>
    ELSE <<sofar + drift + Head(shocks)>>
             \o cumsum(drift, Tail(shocks), sofar + drift + Head(shocks))

\* port_path = last_port_val * np.cumprod(daily_ret): the start value and the
\* exponent reached on each day
port_path(statistics, shocks) ==
    [start |-> statistics.last_port_val,
     exponent |-> cumsum(statistics.drift, shocks, 0)]

\* the loop over range(num_simulations), from path i on: [table, state]
RECURSIVE simulate_paths(_, _, _, _, _)
simulate_paths(state, i, num_simulations, num_days, statistics) ==
    IF i >= num_simulations THEN [table |-> <<>>, state |-> state]
    ELSE LET drawn == normal(seed(state, i), statistics.std_dev, num_days)
             rest == simulate_paths(drawn.state, i + 1, num_simulations, num_days,
                                    statistics)
         IN [table |-> <<port_path(statistics, drawn.shocks)>> \o rest.table,
             state |-> rest.state]

\* Portfolio.monteCarloSimulation: an empty table when there are no returns
monteCarloSimulation(state, num_simulations, num_days, statistics) ==
    IF statistics.empty
    THEN [table |-> <<>>, state |-> state]
    ELSE simulate_paths(state, 0, num_simulations, num_days, statistics)

\* mean, standard deviation and total value of the portfolio at the call
ReturnStatistics ==
    {[empty |-> TRUE, drift |-> 0, std_dev |-> 0, last_port_val |-> 0],
     [empty |-> FALSE, drift |-> 1, std_dev |-> 2, last_port_val |-> 2]}

\* ------------------------------------------------------------ the machine
\* Portfolio.__init__ on a non-empty dictionary of holdings with a positive
\* value, which is what was invested in them
InitialPortfolios ==
    {s \in UNION {[D -> [value : 1..MaxInitValue, investment : 1..MaxInitValue]] :
                  D \in (SUBSET Symbols) \ {{}}} :
        \A x \in DOMAIN s : s[x].investment = s[x].value}

NoRoundTrip == [symbol |-> None, quantity |-> 0, price |-> 0, value |-> 0,
                investment |-> 0, stage |-> "none"]

\* what the last call was and how it ended: outcome is "ok" or the error raised,
\* value the metric returned, new_ the leave-one-out value inside the impact
Call(op, symbol, outcome, value, new_) ==
    [op |-> op, symbol |-> symbol, outcome |-> outcome, value |-> value, new_ |-> new_]

NoCall == Call("init", None, "ok", NaN, NaN)

\* no getDynamicTimeSeries call under way
ReplayIdle ==
    /\ transaction_log = <<>>
    /\ current_cash = 0
    /\ current_holdings = EmptyMap
    /\ portfolio_values = <<>>
    /\ day = 0
    /\ k = 0
    /\ pc = "idle"
    /\ processed = <<>>

NoSimulation ==
    [called |-> FALSE, num_simulations |-> 0, num_days |-> 0,
     statistics |-> [empty |-> TRUE, drift |-> 0, std_dev |-> 0, last_port_val |-> 0],
     before |-> 0, table |-> <<>>]

\* no monteCarloSimulation call made yet
SimulationIdle ==
    /\ simulated_portfolio_values = <<>>
    /\ mc = NoSimulation
    /\ earlier = NoSimulation

InitPortfolio ==
    /\ weights = getWeights(stocks).w
    /\ portfolio_returns = NotCached
    /\ portfolio_excess_returns = NotCached
    /\ last = NoCall
    /\ rt = NoRoundTrip

Init ==
    /\ stocks \in InitialPortfolios
    /\ cash_balance = 0
    /\ InitPortfolio
    /\ ledger = <<>>
    /\ ReplayIdle
    /\ rng = 0
    /\ SimulationIdle

InvestmentOf(s, symbol) == IF symbol \in DOMAIN s THEN s[symbol].investment ELSE 0

\* the arguments of the last update_stock call and the round-trip record: a buy
\* of a held symbol that returned normally (stage "bought", with the holding's
\* value and investment before it), and then the sell of the same quantity at
\* the same price right after it (stage "sold")
RoundTrip(symbol, quantity, price, increase, outcome) ==
    IF increase /\ symbol \in DOMAIN stocks /\ outcome = "ok"
    THEN [symbol |-> symbol, quantity |-> quantity, price |-> price,
          value |-> stocks[symbol].value, investment |-> stocks[symbol].investment,
          stage |-> "bought"]
    ELSE IF /\ ~increase
            /\ rt.stage = "bought"
            /\ rt.symbol = symbol /\ rt.quantity = quantity /\ rt.price = price
         THEN [rt EXCEPT !.stage = "sold"]
         ELSE [symbol |-> symbol, quantity |-> quantity, price |-> price,
               value |-> 0, investment |-> 0, stage |-> "none"]

UpdateStock(symbol, quantity, price, increase) ==
    \E r \in {update_stock(stocks, weights, symbol, quantity, price, increase)} :
    /\ increase => InvestmentOf(stocks, symbol) + quantity * price <= MaxInvestment
    /\ stocks' = r.stocks
    /\ weights' = r.weights
    /\ last' = Call(IF increase THEN "buy" ELSE "sell", symbol, r.outcome, NaN, NaN)
    /\ UNCHANGED <<cash_balance, portfolio_returns, portfolio_excess_returns>>
    /\ UNCHANGED <<replayVars, simulationVars>>

\* update_stock(..., increase=True) and update_stock(..., increase=False), with
\* the round-trip record kept
Buy == \E symbol \in Symbols, quantity \in Quantities, price \in Prices :
           /\ UpdateStock(symbol, quantity, price, TRUE)
           /\ rt' = RoundTrip(symbol, quantity, price, TRUE, last'.outcome)

Sell == \E symbol \in Symbols, quantity \in Quantities, price \in Prices :
            /\ UpdateStock(symbol, quantity, price, FALSE)
            /\ rt' = RoundTrip(symbol, quantity, price, FALSE, last'.outcome)

\* update_stock between the calls of the metrics (no round-trip record)
Trade == \E symbol \in Symbols, quantity \in Quantities, price \in Prices,
            increase \in BOOLEAN :
             /\ UpdateStock(symbol, quantity, price, increase)
             /\ UNCHANGED rt

Raised(r) == IF r.raised THEN "ValueError" ELSE "ok"

GetPortfolioReturns ==
    \E r \in {getPortfolioReturns(portfolio_returns, stocks, weights)} :
    /\ portfolio_returns' = r.memo
    /\ last' = Call("getPortfolioReturns", None, Raised(r), NaN, NaN)
    /\ UNCHANGED rt
    /\ UNCHANGED <<stocks, weights, cash_balance, portfolio_excess_returns>>
    /\ UNCHANGED <<replayVars, simulationVars>>

GetPortfolioExcessReturns ==
    \E r \in {getPortfolioExcessReturns(portfolio_excess_returns, portfolio_returns,
                                         stocks, weights)} :
    /\ portfolio_returns' = r.memo
    /\ portfolio_excess_returns' = r.excess
    /\ last' = Call("getPortfolioExcessReturns", None, Raised(r), NaN, NaN)
    /\ UNCHANGED rt
    /\ UNCHANGED <<stocks, weights, cash_balance>>
    /\ UNCHANGED <<replayVars, simulationVars>>

SimulatePortfolioWithoutAsset ==
    \E symbol \in Symbols :
    \E r \in {simulatePortfolioWithoutAsset(stocks, weights, symbol)} :
    /\ last' = Call("simulatePortfolioWithoutAsset", symbol, Raised(r), r.value, NaN)
    /\ UNCHANGED rt
    /\ UNCHANGED <<stocks, weights, cash_balance, portfolio_returns,
                   portfolio_excess_returns>>
    /\ UNCHANGED <<replayVars, simulationVars>>

GetAssetImpactOnVolatility ==
    \E symbol \in Symbols :
    \E r \in {getAssetImpactOnVolatility(portfolio_returns, stocks, weights, symbol)} :
    /\ portfolio_returns' = r.memo
    /\ last' = Call("getAssetImpactOnVolatility", symbol, Raised(r), r.value, r.new_)
    /\ UNCHANGED rt
    /\ UNCHANGED <<stocks, weights, cash_balance, portfolio_excess_returns>>
    /\ UNCHANGED <<replayVars, simulationVars>>

Next == Buy \/ Sell

Spec == Init /\ [][Next]_vars

NextMetrics ==
    \/ Trade
    \/ GetPortfolioReturns
    \/ GetPortfolioExcessReturns
    \/ SimulatePortfolioWithoutAsset
    \/ GetAssetImpactOnVolatility

SpecMetrics == Init /\ [][NextMetrics]_vars

\* ----------------------------------------- getDynamicTimeSeries, step by step
\* the call with an empty transaction_log returns an empty table at once;
\* otherwise the log is sorted and the replay state is set up
ReplayStart ==
    /\ pc = "idle"
    /\ IF ledger = <<>>
       THEN /\ pc' = "done"
            /\ UNCHANGED <<transaction_log, current_cash, current_holdings, day, k>>
       ELSE /\ transaction_log' \in sort_values(Frame(ledger))
            /\ current_cash' = cash_balance
            /\ current_holdings' = [x \in DOMAIN stocks |-> shares[x]]
            /\ day' = 1
            /\ k' = 1
            /\ pc' = "txs"
    /\ UNCHANGED <<ledger, portfolio_values, processed>>
    /\ UNCHANGED <<portfolioVars, simulationVars>>

\* one pass of the loop over day_txs
ApplyTransaction ==
    /\ pc = "txs"
    /\ k <= Len(day_txs(transaction_log, all_dates[day]))
    /\ \E r \in {apply_tx(current_cash, current_holdings,
                          day_txs(transaction_log, all_dates[day])[k].tx)} :
        /\ current_cash' = r.cash
        /\ current_holdings' = r.holdings
        /\ processed' = Append(processed,
               [index |-> day_txs(transaction_log, all_dates[day])[k].index,
                outcome |-> r.outcome])
        /\ pc' = IF r.outcome = "KeyError" THEN "failed" ELSE "txs"
    /\ k' = k + 1
    /\ UNCHANGED <<ledger, transaction_log, portfolio_values, day>>
    /\ UNCHANGED <<portfolioVars, simulationVars>>

\* the end of a day: its row is appended
EmitRow ==
    /\ pc = "txs"
    /\ k > Len(day_txs(transaction_log, all_dates[day]))
    /\ portfolio_values' =
           Append(portfolio_values,
                  row_dict(current_cash, current_holdings, all_dates[day],
                           PriceColumns(stocks)))
    /\ IF day < Len(all_dates)
       THEN /\ day' = day + 1
            /\ k' = 1
            /\ pc' = "txs"
       ELSE /\ pc' = "sort"
            /\ UNCHANGED <<day, k>>
    /\ UNCHANGED <<ledger, transaction_log, current_cash, current_holdings, processed>>
    /\ UNCHANGED <<portfolioVars, simulationVars>>

\* dyn_df is built from the rows, sorted by Date and returned
ReplayFinish ==
    /\ pc = "sort"
    /\ portfolio_values' \in sort_rows(portfolio_values)
    /\ pc' = "done"
    /\ UNCHANGED <<ledger, transaction_log, current_cash, current_holdings, day, k,
                   processed>>
    /\ UNCHANGED <<portfolioVars, simulationVars>>

NextReplay == ReplayStart \/ ApplyTransaction \/ EmitRow \/ ReplayFinish

\* a portfolio of holdings of value 1, and a call of getDynamicTimeSeries
InitReplay ==
    /\ stocks \in {s \in InitialPortfolios : \A x \in DOMAIN s : s[x].value = 1}
    /\ cash_balance \in InitialCash
    /\ InitPortfolio
    /\ ledger \in Ledgers
    /\ ReplayIdle
    /\ rng = 0
    /\ SimulationIdle

SpecReplay == InitReplay /\ [][NextReplay]_vars

\* ------------------------------------------------- monteCarloSimulation
MonteCarloSimulation ==
    \E num_simulations \in 1..MaxSimulations, num_days \in 1..MaxDays,
       statistics \in ReturnStatistics :
    \E r \in {monteCarloSimulation(rng, num_simulations, num_days, statistics)} :
        /\ rng' = r.state
        /\ simulated_portfolio_values' =
               IF statistics.empty THEN simulated_portfolio_values ELSE r.table
        /\ mc' = [called |-> TRUE, num_simulations |-> num_simulations,
                  num_days |-> num_days, statistics |-> statistics,
                  before |-> rng, table |-> r.table]
        \* the earlier call remembered is kept, or becomes the call before this one
        /\ earlier' \in {earlier, mc}
        /\ UNCHANGED <<portfolioVars, replayVars>>

\* any other use of np.random in the process moves the global generator
OtherRandomUse ==
    /\ rng' \in RngStates \ {rng}
    /\ UNCHANGED <<simulated_portfolio_values, mc, earlier>>
    /\ UNCHANGED <<portfolioVars, replayVars>>

NextSimulation == MonteCarloSimulation \/ OtherRandomUse

InitSimulation ==
    /\ stocks \in {s \in InitialPortfolios :
                      DOMAIN s = Symbols /\ \A x \in DOMAIN s : s[x].value = 1}
    /\ cash_balance = 0
    /\ InitPortfolio
    /\ ledger = <<>>
    /\ ReplayIdle
    /\ rng \in RngStates
    /\ SimulationIdle

SpecSimulation == InitSimulation /\ [][NextSimulation]_vars

\* ------------------------------------------------------------ the claims
Held == DOMAIN stocks

\* C1: in every state reached through update_stock calls the weight mapping is
\* consistent with the holdings: same keys, each weight = amount / total amount,
\* the weights sum to 1 when there are holdings, and no weights when there are none
C1_WeightsConsistent ==
    /\ DOMAIN weights = Held
    /\ Held = {} => weights = EmptyMap
    /\ Held # {} =>
        /\ total_value(stocks) # 0
        /\ \A x \in Held : weights[x] = Frac(getAmount(stocks[x]), total_value(stocks))
        /\ FracSumOver(weights, Held) = <<1, 1>>

\* C2: a sell of a held symbol whose value is below quantity * price fails with
\* the insufficient-position error and leaves holdings and weights as they were
C2_InsufficientSellUnchanged ==
    [][(/\ last'.op = "sell"
        /\ rt'.symbol \in Held
        /\ stocks[rt'.symbol].value < rt'.quantity * rt'.price)
       => (/\ last'.outcome = "InsufficientPosition"
           /\ stocks' = stocks
           /\ weights' = weights)]_vars

C2_Witness ==
    /\ last.op = "sell"
    /\ last.outcome = "InsufficientPosition"
    /\ rt.symbol \in Held
    /\ stocks[rt.symbol].value < rt.quantity * rt.price
    /\ rt.quantity * rt.price > 0

\* C3: a buy of a held symbol followed at once by the sell of the same quantity
\* at the same price puts the holding's value and investment back
C3_RoundTripRestores ==
    rt.stage = "sold" =>
        /\ rt.symbol \in Held
        /\ stocks[rt.symbol].value = rt.value
        /\ stocks[rt.symbol].investment = rt.investment

\* C4: a getter called after a mutation returns the series of the current
\* holdings and weights, never one memoized before the mutation
C4_GettersAreFresh ==
    /\ (last.op = "getPortfolioReturns" /\ last.outcome = "ok") =>
        /\ ~getAdjustedReturns(stocks, weights).raised
        /\ portfolio_returns.series = getAdjustedReturns(stocks, weights).series
    /\ (last.op = "getPortfolioExcessReturns" /\ last.outcome = "ok") =>
        /\ ~getAdjustedReturns(stocks, weights).raised
        /\ portfolio_excess_returns.series =
              LessDailyRF(getAdjustedReturns(stocks, weights).series)

\* C5: after update_stock calls with non-negative quantity and price every
\* holding has a value >= 0 and none is left in the portfolio at value 0
C5_NoZeroValueHolding == \A x \in Held : stocks[x].value > 0

\* C10: simulatePortfolioWithoutAsset never raises, is not available exactly
\* when the symbol is not held or is the only holding, and
\* getAssetImpactOnVolatility is not available exactly when that value is
C10_LeaveOneOut ==
    /\ last.op = "simulatePortfolioWithoutAsset" =>
        /\ last.outcome = "ok"
        /\ last.value.nan <=> (last.symbol \notin Held \/ Held \ {last.symbol} = {})
    /\ (last.op = "getAssetImpactOnVolatility" /\ last.outcome = "ok") =>
        (last.value.nan <=> last.new_.nan)

\* ---- the replay
Rejected(outcome) ==
    outcome \in {"Not enough cash to buy.", "Not enough shares to sell."}

InIndex(d) == \E i \in DOMAIN all_dates : all_dates[i] = d

\* the transaction the loop is about to process
AtTransaction == pc = "txs" /\ k <= Len(day_txs(transaction_log, all_dates[day]))
ThisTx == day_txs(transaction_log, all_dates[day])[k].tx

Unaffordable ==
    \/ ThisTx.Type = "buy" /\ ThisTx.Quantity * ThisTx.Price > current_cash
    \/ ThisTx.Type = "sell" /\ ThisTx.Quantity > get(current_holdings, ThisTx.Symbol)

\* every row of the ledger dated in the price index was processed, once
AllProcessed ==
    /\ \A i \in DOMAIN ledger :
          InIndex(ledger[i].Date) => \E j \in DOMAIN processed : processed[j].index = i
    /\ \A i, j \in DOMAIN processed : processed[i].index = processed[j].index => i = j

C7_LedgerOrder ==
    \A i, j \in DOMAIN processed :
        i < j =>
            \/ ledger[processed[i].index].Date < ledger[processed[j].index].Date
            \/ /\ ledger[processed[i].index].Date = ledger[processed[j].index].Date
               /\ processed[i].index < processed[j].index

\* the cash the accepted transactions up to a date leave
Signed(tx) == IF tx.Type = "buy" THEN 0 - tx.Quantity * tx.Price
              ELSE tx.Quantity * tx.Price
CashAfter(d) ==
    LET upTo == {j \in DOMAIN processed :
                    /\ processed[j].outcome = "ok"
                    /\ ledger[processed[j].index].Date <= d}
    IN cash_balance + SumOver([j \in upTo |-> Signed(ledger[processed[j].index])], upTo)

\* C8: whatever the transactions of a non-empty ledger are, the call ends with
\* one row per date of the price index, in ascending order, each row with the
\* cash after that date's transactions
C8_OneRowPerDate ==
    (ledger # <<>> /\ pc \in {"done", "failed"}) =>
        /\ pc = "done"
        /\ Len(portfolio_values) = Len(all_dates)
        /\ \A i \in DOMAIN portfolio_values :
              /\ portfolio_values[i].Date = all_dates[i]
              /\ portfolio_values[i].Cash = CashAfter(all_dates[i])
        /\ \A i, j \in DOMAIN portfolio_values :
              i < j => portfolio_values[i].Date < portfolio_values[j].Date

\* ---- the simulation
Min(a, b) == IF a < b THEN a ELSE b

\* C9: two calls with the same num_days on the same return statistics and total
\* value give the same paths, path by path, whatever the global generator held
\* before each call and however many paths each call makes; with the same
\* num_simulations the two tables are identical
C9_SamePaths ==
    (/\ earlier.called
     /\ mc.called
     /\ earlier.num_days = mc.num_days
     /\ earlier.statistics = mc.statistics) =>
        /\ earlier.num_simulations = mc.num_simulations => earlier.table = mc.table
        /\ ~mc.statistics.empty =>
              /\ simulated_portfolio_values = mc.table
              /\ \A i \in 1..Min(earlier.num_simulations, mc.num_simulations) :
                    earlier.table[i] = mc.table[i]

C9_Witness ==
    /\ earlier.called
    /\ mc.called
    /\ earlier.num_days = mc.num_days
    /\ earlier.statistics = mc.statistics
    /\ earlier.num_simulations = mc.num_simulations
    /\ mc.num_simulations > 1
    /\ ~mc.statistics.empty
    /\ earlier.before # mc.before
    /\ mc.table[1] # mc.table[2]

\* ---- failure atomicity and the replay's signs
\* C11: an update_stock call that raises (sell of a symbol not held, sell of
\* more than the held value, or the zero-total-value error of the weight
\* recomputation) leaves the holdings (keys, values, investments) and the
\* weights exactly as they were before the call
C11_AtomicOnFailure ==
    [][(last'.op \in {"buy", "sell"} /\ last'.outcome # "ok")
       => (stocks' = stocks /\ weights' = weights)]_vars

\* the inputs C12 is about: cash and held shares the replay starts from, and a
\* ledger of positive quantities at prices that are not negative
PositiveInputs ==
    /\ cash_balance >= 0
    /\ \A x \in Held : shares[x] > 0
    /\ \A i \in DOMAIN ledger : ledger[i].Quantity > 0 /\ ledger[i].Price >= 0

\* C12: with initial cash >= 0, initial quantities > 0 and a ledger of
\* quantities > 0 at prices >= 0, the replay cash is never negative, every
\* symbol in the replay holdings has a quantity > 0 after each transaction, no
\* transaction raises, and the Cash of every emitted row is >= 0
C12_ReplaySigns ==
    PositiveInputs =>
        /\ current_cash >= 0
        /\ \A x \in DOMAIN current_holdings : current_holdings[x] > 0
        /\ pc # "failed"
        /\ \A i \in DOMAIN portfolio_values : portfolio_values[i].Cash >= 0

\* a finished replay of such a ledger in which every transaction was processed,
\* a sale went through and a holding was sold out and left the replay holdings
C12_Witness ==
    /\ PositiveInputs
    /\ pc = "done"
    /\ Len(processed) = Len(ledger)
    /\ \E j \in DOMAIN processed :
          /\ processed[j].outcome = "ok"
          /\ ledger[processed[j].index].Type = "sell"
    /\ \E x \in Held : x \notin DOMAIN current_holdings
    /\ Len(portfolio_values) = Len(all_dates)

====
